---- MODULE Spec2Model ----
(***************************************************************************)
(* Inventory distribution and return-reconciliation ledger of pos-retail.  *)
(*                                                                         *)
(* Two request handlers are modelled from their source:                    *)
(*   - the cashier-to-cashier transfer handler (src/unnamed/part_001),     *)
(*   - the return handler                                                  *)
(*     (src/src/app/api/transactions/[id]/return/route.ts).                *)
(* Distribution lots and transactions are documents of a store; a handler  *)
(* works on in-memory copies it obtained with find and writes them back    *)
(* with save.                                                              *)
(*                                                                         *)
(* Money is counted in integer minor units; the item totals of the         *)
(* modelled transactions are multiples of the item quantity, so that the   *)
(* quotient total / quantity of the refund computation is exact.           *)
(***************************************************************************)
EXTENDS Integers, Sequences, FiniteSets, TLC

(***************************************************************************)
(* Bounds and input sets                                                   *)
(***************************************************************************)
\* number of requests handled in one behaviour
MaxOps == 2
\* largest number of lines of one request
MaxLines == 2

Cashiers == {"A", "B"}
Products == {"X", "Y"}
\* catalogue price of a product, sent by the client as item.price
PriceOf(p) == IF p = "X" THEN 10 ELSE 6
\* quantities a transfer line may carry (0 is refused by the item validation, a negative
\* quantity is not)
TransferQtys == {-1, 0, 1, 2}
\* quantities and item indexes (0-based, as in the request) a return line may carry
ReturnQtys == {-1, 0, 1, 2}
ReturnIndexes == {0, 1, 2}

TransferLine == [productId : Products, quantity : TransferQtys]
ReturnLine == [itemIndex : ReturnIndexes, quantity : ReturnQtys]
SeqsUpTo(S, n) == UNION {[1..k -> S] : k \in 0..n}

VARIABLES
    lots,        \* the Distribution collection, in insertion order
    txns,        \* the Transaction collection, a transaction's id being its index
    clock,       \* source of createdAt
    ops,         \* number of requests handled so far
    lastOp,      \* "none", "transfer" or "return": the request handled last
    lastResult,  \* its outcome
    lastReq,     \* its arguments
    preLots,     \* lots when the last request arrived
    preTxns,     \* txns when the last request arrived
    procs        \* the request handlers in flight, when two requests are handled at once

vars == <<lots, txns, clock, ops, lastOp, lastResult, lastReq, preLots, preTxns, procs>>

(***************************************************************************)
(* Helpers                                                                 *)
(***************************************************************************)
Min(a, b) == IF a < b THEN a ELSE b
Max(a, b) == IF a > b THEN a ELSE b

RECURSIVE SeqSum(_)
SeqSum(s) == IF s = <<>> THEN 0 ELSE Head(s) + SeqSum(Tail(s))

\* Array.prototype.find on a lot's items by productId: index of the first match, 0 if none
FindItem(items, p) ==
    IF \E i \in 1..Len(items) : items[i].productId = p
    THEN CHOOSE i \in 1..Len(items) :
            /\ items[i].productId = p
            /\ \A j \in 1..(i - 1) : items[j].productId # p
    ELSE 0

\* items.reduce((sum, di) => sum + di.price * di.quantity, 0)
ValueByPrice(items) == SeqSum([i \in 1..Len(items) |-> items[i].price * items[i].quantity])
\* items.reduce((sum, di) => sum + di.totalValue, 0)
ValueByStored(items) == SeqSum([i \in 1..Len(items) |-> items[i].totalValue])
\* quantity of product p held by a list of line items
QtyOf(items, p) ==
    SeqSum([i \in 1..Len(items) |-> IF items[i].productId = p THEN items[i].quantity ELSE 0])

ActiveStatuses == {"pending", "delivered"}
IsActive(l) == l.status \in ActiveStatuses

\* a find that ignores the cashier
FindLotsAnyCashier(store, c, statuses) ==
    {i \in 1..Len(store) : store[i].status \in statuses}

\* indexes of the lots Distribution.find({cashierId, status: {$in: statuses}}) returns
FindLots(store, c, statuses) ==
    {i \in 1..Len(store) : store[i].cashierId = c /\ store[i].status \in statuses}

\* the indexes of S as a sequence, in insertion order
RECURSIVE InOrder(_)
InOrder(S) ==
    IF S = {} THEN <<>>
    ELSE LET m == CHOOSE i \in S : \A j \in S : i <= j
         IN <<m>> \o InOrder(S \ {m})

\* [...docs].sort((a, b) => a.createdAt - b.createdAt): oldest first, stable
RECURSIVE SortOldestFirst(_, _)
SortOldestFirst(store, S) ==
    IF S = {} THEN <<>>
    ELSE LET m == CHOOSE i \in S : \A j \in S :
                     \/ store[i].createdAt < store[j].createdAt
                     \/ (store[i].createdAt = store[j].createdAt /\ i <= j)
         IN <<m>> \o SortOldestFirst(store, S \ {m})

\* .sort({createdAt: -1}): newest first
RECURSIVE SortNewestFirst(_, _)
SortNewestFirst(store, S) ==
    IF S = {} THEN <<>>
    ELSE LET m == CHOOSE i \in S : \A j \in S :
                     \/ store[i].createdAt > store[j].createdAt
                     \/ (store[i].createdAt = store[j].createdAt /\ i <= j)
         IN <<m>> \o SortNewestFirst(store, S \ {m})

(***************************************************************************)
(* The store                                                               *)
(***************************************************************************)
\* doc.save() of a lot read at version doc.ver: the write is refused when the stored
\* lot has meanwhile been saved by somebody else
SaveConflicts(store, idx, doc) == store[idx].ver # doc.ver
SaveLot(store, idx, doc) == [store EXCEPT ![idx] = [doc EXCEPT !.ver = @ + 1]]

\* a store that validates nothing
DistributionValidAny(doc) == TRUE
\* the validation of a lot by save(): a line item's quantity and unit price are not negative
DistributionValid(doc) ==
    \A i \in 1..Len(doc.items) : doc.items[i].quantity >= 0 /\ doc.items[i].price >= 0

\* one of the saves throws
SavesThrow(saves) == \E k \in 1..Len(saves) : ~DistributionValid(saves[k].doc)

\* the saves of a handler, in order, applied to the store up to the first save that
\* throws (no save conflicts: one request at a time)
RECURSIVE ApplySaves(_, _)
ApplySaves(store, saves) ==
    IF saves = <<>> \/ ~DistributionValid(Head(saves).doc) THEN store
    ELSE ApplySaves(SaveLot(store, Head(saves).idx, Head(saves).doc), Tail(saves))

(***************************************************************************)
(* Cashier-to-cashier transfer (src/unnamed/part_001)                      *)
(***************************************************************************)
\* the items of a transfer request: the client sends the catalogue price with every line
TransferItems(lines) ==
    [i \in 1..Len(lines) |->
        [productId |-> lines[i].productId,
         quantity  |-> lines[i].quantity,
         price     |-> PriceOf(lines[i].productId)]]

\* the field validation of the request: "ok" or the refusal
ValidateTransfer(s, r, items) ==
    IF Len(items) = 0 THEN "missing_fields"
    ELSE IF s = r THEN "self_transfer"
    ELSE IF \E i \in 1..Len(items) : items[i].quantity = 0 \/ items[i].price = 0
         THEN "invalid_item"
    ELSE "ok"

\* senderStock[p]: quantity of p over the sender's active lots
SenderStock(view, s, p) ==
    LET S == FindLots(view, s, ActiveStatuses)
    IN SeqSum([k \in 1..Len(InOrder(S)) |-> QtyOf(view[InOrder(S)[k]].items, p)])

\* the stock check of one line: TRUE when the line is refused
LineShort(view, s, item) == SenderStock(view, s, item.productId) < item.quantity

\* a stock check that looks at the first line only
InsufficientStockFirstLine(view, s, items) == LineShort(view, s, items[1])

\* the stock check of the request
InsufficientStock(view, s, items) == \E i \in 1..Len(items) : LineShort(view, s, items[i])

\* one lot of the depletion loop for a line with `remaining` units still to deduct
DepleteLot(doc, p, remaining) ==
    LET i == FindItem(doc.items, p)
    IN IF i = 0 \/ doc.items[i].quantity <= 0
       THEN [doc |-> doc, remaining |-> remaining, saved |-> FALSE]
       ELSE LET deduction == Min(remaining, doc.items[i].quantity)
                items1 == [doc.items EXCEPT ![i].quantity = @ - deduction]
                items2 == IF items1[i].quantity = 0
                          THEN SelectSeq(items1, LAMBDA di : di.productId # p)
                          ELSE items1
            IN [doc       |-> [doc EXCEPT !.items = items2,
                                          !.totalValue = ValueByPrice(items2),
                                          !.status = IF Len(items2) = 0 THEN "cancelled" ELSE @],
                remaining |-> remaining - deduction,
                saved     |-> TRUE]

\* the depletion loop of one line over the sender's lots in `order`; mem holds the
\* handler's in-memory lots, saves the saves issued so far
RECURSIVE DepleteLine(_, _, _, _, _)
DepleteLine(mem, order, p, remaining, saves) ==
    IF order = <<>> \/ remaining <= 0 THEN [mem |-> mem, saves |-> saves]
    ELSE LET d == Head(order)
             r == DepleteLot(mem[d], p, remaining)
         IN IF r.saved
            THEN DepleteLine([mem EXCEPT ![d] = [r.doc EXCEPT !.ver = @ + 1]],
                             Tail(order), p, r.remaining,
                             Append(saves, [idx |-> d, doc |-> r.doc]))
            ELSE DepleteLine(mem, Tail(order), p, remaining, saves)

\* the depletion of every line of the request from the lots found for the sender
RECURSIVE DepleteAll(_, _, _, _)
DepleteAll(mem, senderSet, items, saves) ==
    IF items = <<>> THEN [mem |-> mem, saves |-> saves]
    ELSE LET r == DepleteLine(mem, SortOldestFirst(mem, senderSet),
                              Head(items).productId, Head(items).quantity, saves)
         IN DepleteAll(r.mem, senderSet, Tail(items), r.saves)

\* the sender side of a transfer on the lots read by its find: the stock check, then the saves
SenderPhase(view, s, items) ==
    IF InsufficientStock(view, s, items)
    THEN [result |-> "insufficient_stock", saves |-> <<>>]
    ELSE [result |-> "ok",
          saves  |-> DepleteAll(view, FindLots(view, s, ActiveStatuses), items, <<>>).saves]

\* itemsToAdd
ItemsToAdd(items) ==
    [i \in 1..Len(items) |->
        [productId  |-> items[i].productId,
         quantity   |-> items[i].quantity,
         price      |-> items[i].price,
         totalValue |-> items[i].price * items[i].quantity]]

\* the merge of itemsToAdd into the items of the receiver's lot
RECURSIVE MergeItems(_, _)
MergeItems(items, toAdd) ==
    IF toAdd = <<>> THEN items
    ELSE LET a == Head(toAdd)
             i == FindItem(items, a.productId)
         IN MergeItems(
              IF i # 0
              THEN [items EXCEPT ![i].quantity = @ + a.quantity,
                                 ![i].totalValue = items[i].price * (items[i].quantity + a.quantity)]
              ELSE Append(items, a),
              Tail(toAdd))

\* the lot a transfer creates for a receiver without active lot
NewTransferLot(r, items, now) ==
    [cashierId  |-> r,
     status     |-> "delivered",
     items      |-> ItemsToAdd(items),
     totalValue |-> SeqSum([i \in 1..Len(items) |-> items[i].price * items[i].quantity]),
     createdAt  |-> now,
     ver        |-> 0]

\* a receiver side that never looks for a lot of the receiver
ReceiverPhaseAlwaysNew(view, r, items, now) ==
    [saves |-> <<>>, created |-> <<NewTransferLot(r, items, now)>>]
\* the receiver side of a transfer on the lots read by its find
ReceiverPhase(view, r, items, now) ==
    LET recv == InOrder(FindLots(view, r, ActiveStatuses))
    IN IF recv # <<>>
       THEN LET d == Head(recv)
                merged == MergeItems(view[d].items, ItemsToAdd(items))
            IN [saves   |-> <<[idx |-> d,
                               doc |-> [view[d] EXCEPT !.items = merged,
                                                       !.totalValue = ValueByStored(merged)]]>>,
                created |-> <<>>]
       ELSE [saves |-> <<>>, created |-> <<NewTransferLot(r, items, now)>>]

\* the response after the receiver side rp, computed on the store the sender side left:
\* a save that throws leaves what was saved before it
ReceiverOutcome(store1, rp) ==
    IF SavesThrow(rp.saves) \/ \E k \in 1..Len(rp.created) : ~DistributionValid(rp.created[k])
    THEN [result |-> "failed", lots |-> ApplySaves(store1, rp.saves)]
    ELSE [result |-> "ok", lots |-> ApplySaves(store1, rp.saves) \o rp.created]

\* the handler after the sender side sp
SenderOutcome(store, sp, r, items, now) ==
    IF sp.result # "ok" THEN [result |-> sp.result, lots |-> store]
    ELSE IF SavesThrow(sp.saves) THEN [result |-> "failed", lots |-> ApplySaves(store, sp.saves)]
    ELSE ReceiverOutcome(ApplySaves(store, sp.saves),
                         ReceiverPhase(ApplySaves(store, sp.saves), r, items, now))

\* the whole handler on one request, with no other request in between
TransferOutcome(store, s, r, items, now) ==
    IF ValidateTransfer(s, r, items) # "ok"
    THEN [result |-> ValidateTransfer(s, r, items), lots |-> store]
    ELSE SenderOutcome(store, SenderPhase(store, s, items), r, items, now)

(***************************************************************************)
(* Return of sold items (src/src/app/api/transactions/[id]/return/route.ts)*)
(***************************************************************************)
AllStatuses == {"pending", "delivered", "cancelled"}

\* alreadyReturned: the returned quantity recorded under the item's productId and productSku
AlreadyReturned(t, item) ==
    SeqSum([k \in 1..Len(t.returnedItems) |->
        IF /\ t.returnedItems[k].productId = item.productId
           /\ t.returnedItems[k].productSku = item.productSku
        THEN t.returnedItems[k].quantity ELSE 0])

\* the checks of one request line against the transaction as it was read: "ok" or the refusal
CheckReturnLine(t, line) ==
    IF line.itemIndex < 0 \/ line.itemIndex >= Len(t.items) THEN "invalid_index"
    ELSE IF line.quantity > t.items[line.itemIndex + 1].quantity
                             - AlreadyReturned(t, t.items[line.itemIndex + 1])
         THEN "over_return"
    ELSE "ok"

\* a refund at the unit price, ignoring the line's discount
ReturnAmountByPrice(item, quantity) == item.price * quantity
\* returnAmount = (originalItem.total / originalItem.quantity) * quantity
ReturnAmount(item, quantity) == (item.total \div item.quantity) * quantity

\* the entry pushed to newReturnedItems
ReturnedItem(item, quantity) ==
    [productId    |-> item.productId,
     productSku   |-> item.productSku,
     quantity     |-> quantity,
     price        |-> item.price,
     discount     |-> item.discount,
     total        |-> item.total,
     returnAmount |-> ReturnAmount(item, quantity)]

\* a line item that takes one unit at a time
AddBackQtyOne(remaining, quantity) == Min(remaining, 1)
\* addBackQty = Math.min(remainingQuantity, quantity)
AddBackQty(remaining, quantity) == Min(remaining, quantity)

\* the inner loop over the items of one lot, from item i on: every item of the product
\* takes min(remaining, quantity) and the lot is saved
RECURSIVE AddBackLot(_, _, _, _, _, _, _)
AddBackLot(doc, d, i, p, quantity, remaining, saves) ==
    IF i > Len(doc.items) THEN [doc |-> doc, remaining |-> remaining, saves |-> saves]
    ELSE IF doc.items[i].productId # p
         THEN AddBackLot(doc, d, i + 1, p, quantity, remaining, saves)
    ELSE LET addBackQty == AddBackQty(remaining, quantity)
             items1 == [doc.items EXCEPT
                          ![i].quantity = @ + addBackQty,
                          ![i].totalValue = (doc.items[i].quantity + addBackQty) * doc.items[i].price]
             doc1 == [doc EXCEPT !.items = items1,
                                 !.status = IF @ = "cancelled" THEN "pending" ELSE @,
                                 !.totalValue = ValueByPrice(items1)]
             saves1 == Append(saves, [idx |-> d, doc |-> doc1])
             saved == [doc1 EXCEPT !.ver = @ + 1]
         IN IF remaining - addBackQty <= 0
            THEN [doc |-> saved, remaining |-> remaining - addBackQty, saves |-> saves1]
            ELSE AddBackLot(saved, d, i + 1, p, quantity, remaining - addBackQty, saves1)

\* the outer loop over the cashier's lots, newest first
RECURSIVE AddBackLots(_, _, _, _, _, _)
AddBackLots(mem, order, p, quantity, remaining, saves) ==
    IF order = <<>> \/ remaining <= 0
    THEN [mem |-> mem, remaining |-> remaining, saves |-> saves]
    ELSE LET d == Head(order)
             r == AddBackLot(mem[d], d, 1, p, quantity, remaining, saves)
         IN AddBackLots([mem EXCEPT ![d] = r.doc], Tail(order), p, quantity, r.remaining, r.saves)

\* a target that is the oldest active lot, else the oldest lot of any status; 0 if none
TargetLotOldest(mem, order) ==
    LET active == SortOldestFirst(mem, {d \in {order[k] : k \in 1..Len(order)} : IsActive(mem[d])})
    IN IF active # <<>> THEN Head(active)
       ELSE IF order # <<>> THEN order[Len(order)]
       ELSE 0
\* targetDistribution: the newest active lot, else the newest lot of any status; 0 if none
TargetLot(mem, order) ==
    LET active == SortNewestFirst(mem, {d \in {order[k] : k \in 1..Len(order)} : IsActive(mem[d])})
    IN IF active # <<>> THEN Head(active)
       ELSE IF order # <<>> THEN Head(order)
       ELSE 0

\* the quantity left after the loops goes to targetDistribution
AddToTarget(doc, d, item, remaining) ==
    LET i == FindItem(doc.items, item.productId)
        items1 == IF i # 0
                  THEN [doc.items EXCEPT
                          ![i].quantity = @ + remaining,
                          ![i].totalValue = (doc.items[i].quantity + remaining) * doc.items[i].price]
                  ELSE Append(doc.items,
                          [productId  |-> item.productId,
                           quantity   |-> remaining,
                           price      |-> item.price,
                           totalValue |-> remaining * item.price])
    IN [idx |-> d,
        doc |-> [doc EXCEPT !.items = items1,
                            !.status = IF @ = "cancelled" THEN "pending" ELSE @,
                            !.totalValue = ValueByPrice(items1)]]

\* the stock of one accepted line goes back to the cashier's lots read by the find of
\* that line: the saves, in order
Reinstate(view, cashier, item, quantity) ==
    LET order == SortNewestFirst(view, FindLots(view, cashier, AllStatuses))
        r == AddBackLots(view, order, item.productId, quantity, quantity, <<>>)
        target == TargetLot(r.mem, order)
    IN IF r.remaining > 0 /\ target # 0
       THEN Append(r.saves, AddToTarget(r.mem[target], target, item, r.remaining))
       ELSE r.saves

\* the validation of transaction.save(): ReturnedItemSchema and TransactionSchema minima
TransactionValid(t) ==
    /\ \A k \in 1..Len(t.returnedItems) :
          t.returnedItems[k].quantity >= 1 /\ t.returnedItems[k].returnAmount >= 0
    /\ t.subtotal >= 0 /\ t.totalAmount >= 0

\* an update that records the returns of this request in place of the earlier ones
UpdateTransactionReplace(t, newReturnedItems, totalReturnAmount) ==
    [t EXCEPT !.returnedItems = newReturnedItems,
              !.subtotal = Max(0, t.subtotal - totalReturnAmount),
              !.totalAmount = Max(0, t.totalAmount - totalReturnAmount)]
\* the update of the transaction after the loop over the request lines
UpdateTransaction(t, newReturnedItems, totalReturnAmount) ==
    LET returned == t.returnedItems \o newReturnedItems
        totalReturnedQuantity == SeqSum([k \in 1..Len(returned) |-> returned[k].quantity])
        totalOriginalQuantity == SeqSum([k \in 1..Len(t.items) |-> t.items[k].quantity])
    IN [t EXCEPT !.returnedItems = returned,
                 !.subtotal = Max(0, t.subtotal - totalReturnAmount),
                 !.totalAmount = Max(0, t.totalAmount - totalReturnAmount),
                 !.status = IF totalReturnedQuantity >= totalOriginalQuantity
                            THEN "refunded" ELSE @]

\* the loop over the request lines: every line is checked against the transaction as
\* read, then its stock is reinstated and saved before the next line is looked at
RECURSIVE ReturnLoop(_, _, _, _, _)
\* an accepted line: its entry ret and the saves of its reinstatement
AcceptedLine(store, t, rest, newReturnedItems, totalReturnAmount, ret, saves) ==
    IF SavesThrow(saves)
    THEN [result |-> "failed", lots |-> ApplySaves(store, saves),
          newReturnedItems |-> newReturnedItems, totalReturnAmount |-> totalReturnAmount]
    ELSE ReturnLoop(ApplySaves(store, saves), t, rest, Append(newReturnedItems, ret),
                    totalReturnAmount + ret.returnAmount)
ReturnLoop(store, t, lines, newReturnedItems, totalReturnAmount) ==
    IF lines = <<>>
    THEN [result |-> "ok", lots |-> store,
          newReturnedItems |-> newReturnedItems, totalReturnAmount |-> totalReturnAmount]
    ELSE IF CheckReturnLine(t, Head(lines)) # "ok"
    THEN [result |-> CheckReturnLine(t, Head(lines)), lots |-> store,
          newReturnedItems |-> newReturnedItems, totalReturnAmount |-> totalReturnAmount]
    ELSE AcceptedLine(store, t, Tail(lines), newReturnedItems, totalReturnAmount,
                      ReturnedItem(t.items[Head(lines).itemIndex + 1], Head(lines).quantity),
                      Reinstate(store, t.cashierId, t.items[Head(lines).itemIndex + 1],
                                Head(lines).quantity))

\* the whole handler on one request, with no other request in between
ReturnOutcome(store, t, lines) ==
    IF Len(lines) = 0 THEN [result |-> "no_items", lots |-> store, txn |-> t]
    ELSE LET r == ReturnLoop(store, t, lines, <<>>, 0)
             t1 == UpdateTransaction(t, r.newReturnedItems, r.totalReturnAmount)
         IN IF r.result # "ok" THEN [result |-> r.result, lots |-> r.lots, txn |-> t]
            ELSE IF ~TransactionValid(t1)
                 THEN [result |-> "save_failed", lots |-> r.lots, txn |-> t]
            ELSE [result |-> "ok", lots |-> r.lots, txn |-> t1]

(***************************************************************************)
(* Initial state and requests                                              *)
(***************************************************************************)
LineItem(p, q) == [productId |-> p, quantity |-> q, price |-> PriceOf(p), totalValue |-> q * PriceOf(p)]
Lot(c, st, items, at) ==
    [cashierId |-> c, status |-> st, items |-> items,
     totalValue |-> ValueByPrice(items), createdAt |-> at, ver |-> 0]
SoldItem(p, q) ==
    [productId |-> p, productSku |-> p, quantity |-> q, price |-> PriceOf(p),
     discount |-> 0, total |-> q * PriceOf(p)]
Sale(c, items, overallDiscount) ==
    LET subtotal == SeqSum([k \in 1..Len(items) |-> items[k].total])
    IN [cashierId |-> c, items |-> items, returnedItems |-> <<>>,
        subtotal |-> subtotal, overallDiscount |-> overallDiscount,
        totalAmount |-> subtotal - overallDiscount,
        cashReceived |-> subtotal - overallDiscount, change |-> 0,
        status |-> "completed"]

\* Cashier A holds two lots and has sold 2 X and 1 Y; cashier B has sold the only unit
\* of the lot it was given, which left that lot cancelled.
InitLots ==
    << Lot("A", "delivered", <<LineItem("X", 2)>>, 1),
       Lot("A", "pending", <<LineItem("X", 1), LineItem("Y", 2)>>, 2),
       Lot("B", "cancelled", <<>>, 3) >>
InitTxns ==
    << Sale("A", <<SoldItem("X", 2), SoldItem("Y", 1)>>, 0),
       Sale("B", <<SoldItem("X", 1)>>, 4) >>
TxnIds == DOMAIN InitTxns

\* a handler: its request, its position, the transaction it read, the lot saves and
\* the lot insert it has computed and not yet issued, and what it gathered for the
\* transaction
Procs == {1, 2}
NoProc ==
    [kind |-> "none", sender |-> "", receiver |-> "", items |-> <<>>, txn |-> 0, lines |-> <<>>,
     pc |-> "done", result |-> "none", tread |-> <<>>, saves |-> <<>>, created |-> <<>>,
     lineNo |-> 0, newReturnedItems |-> <<>>, totalReturnAmount |-> 0, conflicts |-> 0]

NoReq == [sender |-> "", receiver |-> "", items |-> <<>>, txn |-> 0, lines |-> <<>>]

Init ==
    /\ lots = InitLots
    /\ txns = InitTxns
    /\ clock = Len(InitLots) + 1
    /\ ops = 0
    /\ lastOp = "none"
    /\ lastResult = "none"
    /\ lastReq = NoReq
    /\ preLots = InitLots
    /\ preTxns = InitTxns
    /\ procs = [p \in Procs |-> NoProc]

\* POST of the transfer endpoint
transferStock(s, r, lines) ==
    /\ ops < MaxOps
    /\ LET out == TransferOutcome(lots, s, r, TransferItems(lines), clock)
       IN /\ lots' = out.lots
          /\ lastResult' = out.result
    /\ clock' = clock + 1
    /\ ops' = ops + 1
    /\ lastOp' = "transfer"
    /\ lastReq' = [NoReq EXCEPT !.sender = s, !.receiver = r, !.items = TransferItems(lines)]
    /\ preLots' = lots
    /\ preTxns' = txns
    /\ UNCHANGED <<txns, procs>>

\* POST of the return endpoint
processReturn(id, lines) ==
    /\ ops < MaxOps
    /\ LET out == ReturnOutcome(lots, txns[id], lines)
       IN /\ lots' = out.lots
          /\ txns' = [txns EXCEPT ![id] = out.txn]
          /\ lastResult' = out.result
    /\ ops' = ops + 1
    /\ lastOp' = "return"
    /\ lastReq' = [NoReq EXCEPT !.txn = id, !.lines = lines]
    /\ preLots' = lots
    /\ preTxns' = txns
    /\ UNCHANGED <<clock, procs>>

Next ==
    \/ \E s \in Cashiers, r \in Cashiers, lines \in SeqsUpTo(TransferLine, MaxLines) :
          transferStock(s, r, lines)
    \/ \E id \in TxnIds, lines \in SeqsUpTo(ReturnLine, MaxLines) :
          processReturn(id, lines)

Spec == Init /\ [][Next]_vars

(***************************************************************************)
(* A second ledger, with larger quantities: cashier A holds two lots of 5  *)
(* X each and has sold 4 X at 100 with a discount of 10 percent (line      *)
(* total 360); cashier C has sold one X and owns no lot of any status.     *)
(***************************************************************************)
ScenarioCashiers == {"A", "B", "C"}
ScenarioTransferQtys == {3, 7}
ScenarioReturnQtys == {1, 3, 4}
ScenarioTransferLine == [productId : {"X"}, quantity : ScenarioTransferQtys]
ScenarioReturnLine == [itemIndex : {0}, quantity : ScenarioReturnQtys]

DiscountedItem(p, q, price, discount) ==
    [productId |-> p, productSku |-> p, quantity |-> q, price |-> price,
     discount |-> discount, total |-> (q * price * (100 - discount)) \div 100]

ScenarioLots ==
    << Lot("A", "delivered", <<LineItem("X", 5)>>, 1),
       Lot("A", "delivered", <<LineItem("X", 5)>>, 2) >>
ScenarioTxns ==
    << Sale("A", <<DiscountedItem("X", 4, 100, 10)>>, 0),
       Sale("C", <<SoldItem("X", 1)>>, 0) >>

InitScenario ==
    /\ lots = ScenarioLots
    /\ txns = ScenarioTxns
    /\ clock = Len(ScenarioLots) + 1
    /\ ops = 0
    /\ lastOp = "none"
    /\ lastResult = "none"
    /\ lastReq = NoReq
    /\ preLots = ScenarioLots
    /\ preTxns = ScenarioTxns
    /\ procs = [p \in Procs |-> NoProc]

NextScenario ==
    \/ \E s \in ScenarioCashiers, r \in ScenarioCashiers,
          lines \in SeqsUpTo(ScenarioTransferLine, MaxLines) :
          transferStock(s, r, lines)
    \/ \E id \in DOMAIN ScenarioTxns, lines \in SeqsUpTo(ScenarioReturnLine, MaxLines) :
          processReturn(id, lines)

SpecScenario == InitScenario /\ [][NextScenario]_vars

(***************************************************************************)
(* A third ledger, with three cashiers: cashier A has sold X on two lines   *)
(* of one transaction (2 units and 1 unit, same productId and same sku)    *)
(* and holds one lot with X and Y; cashier C holds a lot with X and Y and  *)
(* has sold one Y; cashier B holds nothing.                                *)
(***************************************************************************)
SharedCashiers == {"A", "B", "C"}
SharedReturnQtys == {1, 2}
SharedReturnLine == [itemIndex : {0, 1}, quantity : SharedReturnQtys]
SharedTransferLine == [productId : {"X"}, quantity : {1}]

SharedLots ==
    << Lot("A", "delivered", <<LineItem("X", 1), LineItem("Y", 1)>>, 1),
       Lot("C", "pending", <<LineItem("Y", 1), LineItem("X", 2)>>, 2) >>
SharedTxns ==
    << Sale("A", <<SoldItem("X", 2), SoldItem("X", 1)>>, 0),
       Sale("C", <<SoldItem("Y", 1)>>, 0) >>

InitShared ==
    /\ lots = SharedLots
    /\ txns = SharedTxns
    /\ clock = Len(SharedLots) + 1
    /\ ops = 0
    /\ lastOp = "none"
    /\ lastResult = "none"
    /\ lastReq = NoReq
    /\ preLots = SharedLots
    /\ preTxns = SharedTxns
    /\ procs = [p \in Procs |-> NoProc]

NextShared ==
    \/ \E s \in SharedCashiers, r \in SharedCashiers,
          lines \in SeqsUpTo(SharedTransferLine, MaxLines) :
          transferStock(s, r, lines)
    \/ \E id \in DOMAIN SharedTxns, lines \in SeqsUpTo(SharedReturnLine, MaxLines) :
          processReturn(id, lines)

SpecShared == InitShared /\ [][NextShared]_vars


(***************************************************************************)
(* Two requests handled at once.  A handler runs from one await to the     *)
(* next without interruption: a find and the computation that follows it   *)
(* are one step, every save is a step of its own.                          *)
(***************************************************************************)
\* quantities and item indexes of the requests handled at once
ConcTransferQtys == {1, 2}
ConcReturnQtys == {1, 2}
ConcReturnIndexes == {0, 1}
ConcTransferLine == [productId : Products, quantity : ConcTransferQtys]
ConcReturnLine == [itemIndex : ConcReturnIndexes, quantity : ConcReturnQtys]

TransferProc(s, r, lines) ==
    [NoProc EXCEPT !.kind = "transfer", !.sender = s, !.receiver = r,
                   !.items = TransferItems(lines), !.pc = "start"]
ReturnProc(id, lines) ==
    [NoProc EXCEPT !.kind = "return", !.txn = id, !.lines = lines, !.pc = "start"]

\* a transfer, and with it another transfer or a return; or two returns of one transaction
InitConc ==
    /\ lots = InitLots
    /\ txns = InitTxns
    /\ clock = Len(InitLots) + 1
    /\ ops = 0
    /\ lastOp = "none"
    /\ lastResult = "none"
    /\ lastReq = NoReq
    /\ preLots = InitLots
    /\ preTxns = InitTxns
    /\ \/ \E s1 \in Cashiers : \E r1 \in Cashiers \ {s1},
             l1 \in SeqsUpTo(ConcTransferLine, MaxLines) \ {<<>>} :
            \/ \E s2 \in Cashiers : \E r2 \in Cashiers \ {s2},
                  l2 \in SeqsUpTo(ConcTransferLine, MaxLines) \ {<<>>} :
                 procs = [p \in Procs |-> IF p = 1 THEN TransferProc(s1, r1, l1)
                                          ELSE TransferProc(s2, r2, l2)]
            \/ \E id \in TxnIds, l2 \in SeqsUpTo(ConcReturnLine, MaxLines) \ {<<>>} :
                 procs = [p \in Procs |-> IF p = 1 THEN TransferProc(s1, r1, l1)
                                          ELSE ReturnProc(id, l2)]
       \/ \E id \in TxnIds, l1 \in SeqsUpTo(ConcReturnLine, MaxLines) \ {<<>>},
             l2 \in SeqsUpTo(ConcReturnLine, MaxLines) \ {<<>>} :
            procs = [p \in Procs |-> IF p = 1 THEN ReturnProc(id, l1) ELSE ReturnProc(id, l2)]

Ghosts == <<ops, lastOp, lastResult, lastReq, preLots, preTxns>>
Finish(pr, result) == [pr EXCEPT !.pc = "done", !.result = result]

\* the catch block of a handler: a save that throws ends the request with status 500
SaveThrew(pr) == Finish([pr EXCEPT !.saves = <<>>, !.created = <<>>], "failed")
\* the same after a save refused for a version conflict; conflicts counts the conflicts
\* the handler has met
SaveConflicted(pr) == SaveThrew([pr EXCEPT !.conflicts = @ + 1])
\* the handler goes on after a save that succeeded
SaveDone(pr) == [pr EXCEPT !.saves = Tail(@)]

\* transfer: the field validation, the find of the sender's lots, the stock check and
\* the depletion in memory up to the first save
TransferStart(p) ==
    /\ procs[p].kind = "transfer" /\ procs[p].pc = "start"
    /\ LET pr == procs[p]
           v == ValidateTransfer(pr.sender, pr.receiver, pr.items)
           sp == SenderPhase(lots, pr.sender, pr.items)
       IN procs' = [procs EXCEPT ![p] =
                      IF v # "ok" THEN Finish(pr, v)
                      ELSE IF sp.result # "ok" THEN Finish(pr, sp.result)
                      ELSE [pr EXCEPT !.pc = "sender", !.saves = sp.saves]]
    /\ UNCHANGED <<lots, txns, clock, Ghosts>>

\* await doc.save() of the next lot a handler has to write
SaveStep(p) ==
    /\ procs[p].pc # "done" /\ procs[p].saves # <<>>
    /\ LET sv == Head(procs[p].saves)
       IN IF SaveConflicts(lots, sv.idx, sv.doc)
          THEN /\ procs' = [procs EXCEPT ![p] = SaveConflicted(procs[p])]
               /\ UNCHANGED lots
          ELSE IF ~DistributionValid(sv.doc)
          THEN /\ procs' = [procs EXCEPT ![p] = SaveThrew(procs[p])]
               /\ UNCHANGED lots
          ELSE /\ procs' = [procs EXCEPT ![p] = SaveDone(procs[p])]
               /\ lots' = SaveLot(lots, sv.idx, sv.doc)
    /\ UNCHANGED <<txns, clock, Ghosts>>

\* transfer: the find of the receiver's active lots and the merge in memory
TransferReceiver(p) ==
    /\ procs[p].kind = "transfer" /\ procs[p].pc = "sender" /\ procs[p].saves = <<>>
    /\ LET pr == procs[p]
           rp == ReceiverPhase(lots, pr.receiver, pr.items, clock)
       IN procs' = [procs EXCEPT ![p] =
                      [pr EXCEPT !.pc = "receiver", !.saves = rp.saves, !.created = rp.created]]
    /\ UNCHANGED <<lots, txns, clock, Ghosts>>

\* transfer: await newDistribution.save()
TransferCreate(p) ==
    /\ procs[p].kind = "transfer" /\ procs[p].pc = "receiver" /\ procs[p].created # <<>>
    /\ IF DistributionValid(Head(procs[p].created))
       THEN /\ lots' = Append(lots, [Head(procs[p].created) EXCEPT !.createdAt = clock])
            /\ clock' = clock + 1
            /\ procs' = [procs EXCEPT ![p] = Finish([procs[p] EXCEPT !.created = <<>>], "ok")]
       ELSE /\ procs' = [procs EXCEPT ![p] = SaveThrew(procs[p])]
            /\ UNCHANGED <<lots, clock>>
    /\ UNCHANGED <<txns, Ghosts>>

\* transfer: the response after the receiver's lot was saved
TransferDone(p) ==
    /\ procs[p].kind = "transfer" /\ procs[p].pc = "receiver"
    /\ procs[p].saves = <<>> /\ procs[p].created = <<>>
    /\ procs' = [procs EXCEPT ![p] = Finish(procs[p], "ok")]
    /\ UNCHANGED <<lots, txns, clock, Ghosts>>

\* return: Transaction.findById
ReturnStart(p) ==
    /\ procs[p].kind = "return" /\ procs[p].pc = "start"
    /\ procs' = [procs EXCEPT ![p] =
                   IF Len(procs[p].lines) = 0 THEN Finish(procs[p], "no_items")
                   ELSE [procs[p] EXCEPT !.pc = "lines", !.lineNo = 1,
                                         !.tread = <<txns[procs[p].txn]>>]]
    /\ UNCHANGED <<lots, txns, clock, Ghosts>>

\* return: the checks of the next line, the find of the cashier's lots and the
\* reinstatement in memory up to its save
ReturnLineStep(p) ==
    /\ procs[p].kind = "return" /\ procs[p].pc = "lines" /\ procs[p].saves = <<>>
    /\ procs[p].lineNo <= Len(procs[p].lines)
    /\ LET pr == procs[p]
           t == Head(pr.tread)
           line == pr.lines[pr.lineNo]
           c == CheckReturnLine(t, line)
           item == t.items[line.itemIndex + 1]
           ret == ReturnedItem(item, line.quantity)
       IN procs' = [procs EXCEPT ![p] =
                      IF c # "ok" THEN Finish(pr, c)
                      ELSE [pr EXCEPT !.lineNo = @ + 1,
                                      !.saves = Reinstate(lots, t.cashierId, item, line.quantity),
                                      !.newReturnedItems = Append(@, ret),
                                      !.totalReturnAmount = @ + ret.returnAmount]]
    /\ UNCHANGED <<lots, txns, clock, Ghosts>>

\* transaction.save() of the transaction read as `read` and updated to t1: the pushed
\* entries are appended to the stored returnedItems and the fields whose value was
\* changed are set; the transaction schema asks for no version check
SaveTransaction(stored, read, t1, newReturnedItems) ==
    [stored EXCEPT !.returnedItems = @ \o newReturnedItems,
                   !.subtotal = IF t1.subtotal # read.subtotal THEN t1.subtotal ELSE @,
                   !.totalAmount = IF t1.totalAmount # read.totalAmount THEN t1.totalAmount ELSE @,
                   !.status = IF t1.status # read.status THEN t1.status ELSE @]

\* return: the update of the transaction and transaction.save()
ReturnFinish(p) ==
    /\ procs[p].kind = "return" /\ procs[p].pc = "lines" /\ procs[p].saves = <<>>
    /\ procs[p].lineNo > Len(procs[p].lines)
    /\ LET pr == procs[p]
           t1 == UpdateTransaction(Head(pr.tread), pr.newReturnedItems, pr.totalReturnAmount)
       IN IF TransactionValid(t1)
          THEN /\ txns' = [txns EXCEPT ![pr.txn] =
                                SaveTransaction(@, Head(pr.tread), t1, pr.newReturnedItems)]
               /\ procs' = [procs EXCEPT ![p] = Finish(pr, "ok")]
          ELSE /\ procs' = [procs EXCEPT ![p] = Finish(pr, "save_failed")]
               /\ UNCHANGED txns
    /\ UNCHANGED <<lots, clock, Ghosts>>

NextConc ==
    \E p \in Procs :
        \/ TransferStart(p)
        \/ SaveStep(p)
        \/ TransferReceiver(p)
        \/ TransferCreate(p)
        \/ TransferDone(p)
        \/ ReturnStart(p)
        \/ ReturnLineStep(p)
        \/ ReturnFinish(p)

SpecConc == InitConc /\ [][NextConc]_vars

(***************************************************************************)
(* Properties                                                              *)
(***************************************************************************)
\* a lot without the store's version counter
Content(l) ==
    [cashierId |-> l.cashierId, status |-> l.status, items |-> l.items,
     totalValue |-> l.totalValue, createdAt |-> l.createdAt]
SameLots(a, b) == Len(a) = Len(b) /\ \A i \in 1..Len(a) : Content(a[i]) = Content(b[i])

\* availableStock(cashierId, productId): quantity over the cashier's active lots
AvailableStock(store, c, p) ==
    SeqSum([i \in 1..Len(store) |->
        IF store[i].cashierId = c /\ IsActive(store[i]) THEN QtyOf(store[i].items, p) ELSE 0])
\* quantity of p over the active lots of all cashiers
TotalStock(store, p) ==
    SeqSum([i \in 1..Len(store) |-> IF IsActive(store[i]) THEN QtyOf(store[i].items, p) ELSE 0])

SoldIn(t, p) == SeqSum([k \in 1..Len(t.items) |->
                    IF t.items[k].productId = p THEN t.items[k].quantity ELSE 0])
ReturnedIn(t, p) == SeqSum([k \in 1..Len(t.returnedItems) |->
                    IF t.returnedItems[k].productId = p THEN t.returnedItems[k].quantity ELSE 0])
Sold(p) == SeqSum([id \in 1..Len(InitTxns) |-> SoldIn(InitTxns[id], p)])
Returned(p) == SeqSum([id \in 1..Len(txns) |-> ReturnedIn(txns[id], p)])
Distributed(p) == TotalStock(InitLots, p) + Sold(p)

\* C1 (conservation): for each product the quantity held in all active lots equals the
\* quantity distributed minus the quantity sold and not yet returned.
C1_Conservation ==
    \A p \in Products : TotalStock(lots, p) = Distributed(p) - (Sold(p) - Returned(p))

\* the last request was a return of transaction lastReq.txn, as it was before the request
IsReturn == lastOp = "return"
IsTransfer == lastOp = "transfer"
ReturnRefusals == {"invalid_index", "over_return"}
Unchanged == SameLots(lots, preLots) /\ txns = preTxns

\* the quantity recorded as returned for item k (1-based) of transaction t
ReturnedForItem(t, k) ==
    SeqSum([j \in 1..Len(t.returnedItems) |->
        IF /\ t.returnedItems[j].productId = t.items[k].productId
           /\ t.returnedItems[j].productSku = t.items[k].productSku
        THEN t.returnedItems[j].quantity ELSE 0])
IndexInRange(t, line) == line.itemIndex >= 0 /\ line.itemIndex < Len(t.items)
\* a request line that is invalid for transaction t
LineInvalid(t, line) ==
    \/ ~IndexInRange(t, line)
    \/ line.quantity > t.items[line.itemIndex + 1].quantity - ReturnedForItem(t, line.itemIndex + 1)

\* C2 (no partial mutation on a rejected return): a return request with an invalid line,
\* at any position, is rejected and leaves the transaction and every lot as they were.
C2_NoPartialMutation ==
    (IsReturn /\ \E i \in 1..Len(lastReq.lines) :
                    LineInvalid(preTxns[lastReq.txn], lastReq.lines[i]))
    => (lastResult \in ReturnRefusals /\ Unchanged)

\* C3 (no over-return): the quantities of the ReturnedItem entries recorded for an item
\* never exceed the item's original quantity.
C3_NoOverReturn ==
    \A id \in TxnIds : \A k \in 1..Len(txns[id].items) :
        ReturnedForItem(txns[id], k) <= txns[id].items[k].quantity

\* a transfer request with well-formed fields
WellFormedTransfer ==
    /\ IsTransfer
    /\ lastReq.sender # lastReq.receiver
    /\ Len(lastReq.items) > 0
    /\ \A i \in 1..Len(lastReq.items) : lastReq.items[i].quantity # 0
\* line i of the last transfer asks for more than the sender had available
ShortLine(i) ==
    AvailableStock(preLots, lastReq.sender, lastReq.items[i].productId) < lastReq.items[i].quantity

\* C4 (transfer atomicity precheck): a transfer with a line that asks for more of a
\* product than the sender has available is rejected with the insufficient-stock error
\* and no lot is changed.
C4_TransferPrecheck ==
    (WellFormedTransfer /\ \E i \in 1..Len(lastReq.items) : ShortLine(i))
    => (lastResult = "insufficient_stock" /\ SameLots(lots, preLots))

\* C4 witness: a two-product transfer was rejected with one product sufficient and
\* the other short.
C4_Witness ==
    /\ WellFormedTransfer
    /\ Len(lastReq.items) = 2
    /\ lastReq.items[1].productId # lastReq.items[2].productId
    /\ ~ShortLine(1) /\ ShortLine(2)
    /\ lastResult = "insufficient_stock"

\* the quantity of p the last transfer asked for, over all its lines
RequestedQty(p) ==
    SeqSum([i \in 1..Len(lastReq.items) |->
        IF lastReq.items[i].productId = p THEN lastReq.items[i].quantity ELSE 0])
\* the sender's active lots when the transfer arrived
SenderLots == {d \in 1..Len(preLots) : preLots[d].cashierId = lastReq.sender /\ IsActive(preLots[d])}
\* the quantity of p in the sender's lots older than lot d
OlderQty(d, p) ==
    SeqSum([j \in 1..Len(preLots) |->
        IF j \in SenderLots /\ preLots[j].createdAt < preLots[d].createdAt
        THEN QtyOf(preLots[j].items, p) ELSE 0])
LotLoss(d, p) == QtyOf(preLots[d].items, p) - QtyOf(lots[d].items, p)

\* C5 (FIFO determinism): a transfer that depletes Q of a product from a sender holding
\* at least Q takes from each lot, oldest first, min(qk, max(0, Q - (q1 + ... + q(k-1)))).
C5_FIFO ==
    (IsTransfer /\ lastResult = "ok")
    => \A p \in Products :
          (RequestedQty(p) > 0 /\ AvailableStock(preLots, lastReq.sender, p) >= RequestedQty(p))
          => \A d \in SenderLots :
                LotLoss(d, p) = Min(QtyOf(preLots[d].items, p), Max(0, RequestedQty(p) - OlderQty(d, p)))

\* the last return carried a line with a positive quantity for an item that was already
\* returned in full
LineForReturnedItem(t, line) ==
    /\ IndexInRange(t, line)
    /\ line.quantity > 0
    /\ ReturnedForItem(t, line.itemIndex + 1) = t.items[line.itemIndex + 1].quantity

\* C7 (return idempotence bound): a return with a positive quantity for an item already
\* returned in full is rejected and changes nothing; a refunded transaction stays refunded.
C7_ReturnBound ==
    /\ (IsReturn /\ \E i \in 1..Len(lastReq.lines) :
                       LineForReturnedItem(preTxns[lastReq.txn], lastReq.lines[i]))
       => (lastResult \in ReturnRefusals /\ Unchanged)
    /\ \A id \in TxnIds : preTxns[id].status = "refunded" => txns[id].status = "refunded"

TotalReturnedQty(t) == SeqSum([k \in 1..Len(t.returnedItems) |-> t.returnedItems[k].quantity])
TotalOriginalQty(t) == SeqSum([k \in 1..Len(t.items) |-> t.items[k].quantity])

\* C8 (status rule): a transaction is refunded exactly when the returned quantities sum
\* to the original quantities, and is completed otherwise.
C8_StatusRule ==
    \A id \in TxnIds :
        /\ txns[id].status = "refunded" <=> TotalReturnedQty(txns[id]) = TotalOriginalQty(txns[id])
        /\ txns[id].status \in {"refunded", "completed"}

\* C9 (totals): totalAmount = subtotal - overallDiscount, both >= 0, after every return.
C9_Totals ==
    \A id \in TxnIds :
        /\ txns[id].totalAmount = txns[id].subtotal - txns[id].overallDiscount
        /\ txns[id].subtotal >= 0
        /\ txns[id].totalAmount >= 0

\* C10 (lot value): a lot's totalValue is the sum of its line values and every stored
\* line value is quantity times unit price.
C10_LotValue ==
    \A d \in 1..Len(lots) :
        /\ lots[d].totalValue = ValueByStored(lots[d].items)
        /\ \A i \in 1..Len(lots[d].items) :
              lots[d].items[i].totalValue = lots[d].items[i].quantity * lots[d].items[i].price

\* the lots and transactions after request pr was handled alone
RunAlone(store, ts, pr, now) ==
    IF pr.kind = "transfer"
    THEN [lots |-> TransferOutcome(store, pr.sender, pr.receiver, pr.items, now).lots, txns |-> ts]
    ELSE LET out == ReturnOutcome(store, ts[pr.txn], pr.lines)
         IN [lots |-> out.lots, txns |-> [ts EXCEPT ![pr.txn] = out.txn]]
\* the lots after the two requests were handled one after the other, `first` first
SerialLots(first, second) ==
    LET one == RunAlone(InitLots, InitTxns, procs[first], Len(InitLots) + 1)
    IN RunAlone(one.lots, one.txns, procs[second], Len(InitLots) + 2).lots

AllDone == \A p \in Procs : procs[p].kind # "none" /\ procs[p].pc = "done"
SomeFailed == \E p \in Procs : procs[p].result = "failed"
\* the owner of a lot and the quantity it holds of every product
Holding(l) == [cashierId |-> l.cashierId, qty |-> [p \in Products |-> QtyOf(l.items, p)]]
\* the same lots as far as owners and quantities go, whatever their order
SameLotQuantities(a, b) ==
    /\ Len(a) = Len(b)
    /\ \A d \in 1..Len(a) :
          Cardinality({e \in 1..Len(a) : Holding(a[e]) = Holding(a[d])})
          = Cardinality({e \in 1..Len(b) : Holding(b[e]) = Holding(a[d])})
\* C6 (optimistic concurrency): after two requests handled at once, one request has
\* failed with a conflict or the lots hold the quantities that one of the two serial
\* executions leaves.
C6_SerialLots ==
    AllDone => \/ SomeFailed
               \/ SameLotQuantities(lots, SerialLots(1, 2))
               \/ SameLotQuantities(lots, SerialLots(2, 1))

\* the ReturnedItem entries of transaction t recorded for its item k (1-based)
EntriesForItem(t, k) ==
    {j \in 1..Len(t.returnedItems) :
        /\ t.returnedItems[j].productId = t.items[k].productId
        /\ t.returnedItems[j].productSku = t.items[k].productSku}
\* the refunds recorded for item k of transaction t
RefundedForItem(t, k) ==
    SeqSum([j \in 1..Len(t.returnedItems) |->
        IF j \in EntriesForItem(t, k) THEN t.returnedItems[j].returnAmount ELSE 0])

\* C11 (refund proportionality): for an item whose line total is a multiple of its
\* quantity, every recorded return of q units carries returnAmount (total / quantity) * q,
\* and once the recorded returns make up exactly the item's quantity their returnAmounts
\* sum to the item's line total.
C11_RefundProportional ==
    \A id \in DOMAIN txns : \A k \in 1..Len(txns[id].items) :
        LET t == txns[id]
            item == t.items[k]
        IN item.total % item.quantity = 0
           => /\ \A j \in EntriesForItem(t, k) :
                    t.returnedItems[j].returnAmount
                       = (item.total \div item.quantity) * t.returnedItems[j].quantity
              /\ ReturnedForItem(t, k) = item.quantity => RefundedForItem(t, k) = item.total

\* C11 witness: of the 4 units sold for 360, one was returned for 90 and then the other
\* three for 270.
C11_Witness ==
    /\ txns[1].items[1].quantity = 4 /\ txns[1].items[1].total = 360
    /\ Len(txns[1].returnedItems) = 2
    /\ txns[1].returnedItems[1].quantity = 1 /\ txns[1].returnedItems[1].returnAmount = 90
    /\ txns[1].returnedItems[2].quantity = 3 /\ txns[1].returnedItems[2].returnAmount = 270

\* C12 (return validation of quantity): a return request with a line whose quantity is
\* zero or negative is rejected and changes neither the transaction nor any lot.
C12_QuantityValidation ==
    (IsReturn /\ \E i \in 1..Len(lastReq.lines) : lastReq.lines[i].quantity <= 0)
    => (lastResult # "ok" /\ Unchanged)

\* C13 (empty-lot rule): no lot keeps a line item with quantity 0, a lot without line
\* items is cancelled and a lot with line items is not.
C13_EmptyLotRule ==
    \A d \in 1..Len(lots) :
        /\ \A i \in 1..Len(lots[d].items) : lots[d].items[i].quantity # 0
        /\ Len(lots[d].items) = 0 <=> lots[d].status = "cancelled"

\* C14 (transaction frame): a successful return leaves items, cashierId, overallDiscount,
\* cashReceived and change of the transaction as they were and only appends to
\* returnedItems; a rejected return changes no field of the transaction.
C14_TransactionFrame ==
    IsReturn =>
        LET pre == preTxns[lastReq.txn]
            post == txns[lastReq.txn]
        IN IF lastResult = "ok"
           THEN /\ post.items = pre.items
                /\ post.cashierId = pre.cashierId
                /\ post.overallDiscount = pre.overallDiscount
                /\ post.cashReceived = pre.cashReceived
                /\ post.change = pre.change
                /\ Len(post.returnedItems) >= Len(pre.returnedItems)
                /\ SubSeq(post.returnedItems, 1, Len(pre.returnedItems)) = pre.returnedItems
           ELSE post = pre

\* C14 witness: a successful return on a transaction that already recorded a return.
C14_Witness ==
    /\ IsReturn /\ lastResult = "ok"
    /\ preTxns[lastReq.txn].returnedItems # <<>>
    /\ Len(txns[lastReq.txn].returnedItems) > Len(preTxns[lastReq.txn].returnedItems)

C16_BoundedRetry ==
    \A p \in Procs :
        (procs[p].pc = "done" /\ procs[p].conflicts > 0) => procs[p].conflicts > 1

\* C17 (full deduction): after a transfer of positive quantities that passed the stock
\* check, the sender's available stock of every product is what it was minus the quantity
\* requested for that product over all lines of the request.
C17_FullDeduction ==
    (/\ IsTransfer /\ lastResult = "ok"
     /\ \A i \in 1..Len(lastReq.items) : lastReq.items[i].quantity > 0)
    => \A p \in Products :
          AvailableStock(lots, lastReq.sender, p)
             = AvailableStock(preLots, lastReq.sender, p) - RequestedQty(p)

\* the cashier of the transaction the last return was for
ReturnCashier == preTxns[lastReq.txn].cashierId
\* the quantity of product p the lines of the last return asked to take back
ReturnRequestedQty(p) ==
    SeqSum([i \in 1..Len(lastReq.lines) |->
        IF preTxns[lastReq.txn].items[lastReq.lines[i].itemIndex + 1].productId = p
        THEN lastReq.lines[i].quantity ELSE 0])
\* the lots the cashier owned, of any status, when the last return arrived
CashierLots == FindLots(preLots, ReturnCashier, AllStatuses)

\* C18 (reinstatement last resort): a return accepted for a transaction whose cashier
\* owns no lot of any status creates a new lot of that cashier that holds the returned
\* product and quantity.
C18_LastResortLot ==
    (IsReturn /\ lastResult = "ok" /\ CashierLots = {})
    => \E d \in (Len(preLots) + 1)..Len(lots) :
          /\ lots[d].cashierId = ReturnCashier
          /\ \A p \in Products : QtyOf(lots[d].items, p) = ReturnRequestedQty(p)

\* the cashier's active lots that held a line item of product p when the last return arrived
ActiveLotsWith(p) ==
    {d \in CashierLots : IsActive(preLots[d]) /\ FindItem(preLots[d].items, p) # 0}
\* the line items of product p in a lot
LinesOf(l, p) == {i \in 1..Len(l.items) : l.items[i].productId = p}
\* line item i of lot d has gained q units and every other line item of product p, in
\* any lot, has the quantity it had
OnlyGain(d, i, p, q) ==
    /\ preLots[d].items[i].productId = p
    /\ lots[d].items[i].quantity = preLots[d].items[i].quantity + q
    /\ \A e \in 1..Len(preLots) : \A j \in 1..Len(preLots[e].items) :
          (preLots[e].items[j].productId = p /\ <<e, j>> # <<d, i>>)
          => lots[e].items[j].quantity = preLots[e].items[j].quantity

NewestOf(S) == CHOOSE d \in S : \A e \in S : preLots[e].createdAt <= preLots[d].createdAt
\* the cashier's active lots when the last return arrived
ActiveCashierLots == {d \in CashierLots : IsActive(preLots[d])}
\* the lot the returned quantity has to go to when no lot of the cashier holds the product
FallbackTarget ==
    IF ActiveCashierLots # {} THEN NewestOf(ActiveCashierLots) ELSE NewestOf(CashierLots)
\* no lot of the cashier, of any status, held a line item of product p
NoLotWith(p) == \A d \in CashierLots : LinesOf(preLots[d], p) = {}

\* C20 (reinstatement fallback target): when no lot of the cashier holds a line item of
\* the returned product, an accepted return adds the quantity as one new line item to the
\* cashier's active lot created last, or, without active lot, to the cashier's lot created
\* last whatever its status, which becomes pending if it was cancelled.
C20_FallbackTarget ==
    (IsReturn /\ lastResult = "ok" /\ CashierLots # {})
    => \A p \in Products :
          (ReturnRequestedQty(p) > 0 /\ NoLotWith(p))
          => /\ Len(lots) = Len(preLots)
             /\ \E i \in LinesOf(lots[FallbackTarget], p) :
                   /\ LinesOf(lots[FallbackTarget], p) = {i}
                   /\ i > Len(preLots[FallbackTarget].items)
                   /\ lots[FallbackTarget].items[i].quantity = ReturnRequestedQty(p)
             /\ lots[FallbackTarget].status =
                   IF preLots[FallbackTarget].status = "cancelled" THEN "pending"
                   ELSE preLots[FallbackTarget].status
             /\ \A d \in CashierLots \ {FallbackTarget} : LinesOf(lots[d], p) = {}

\* C20 witness: an accepted return of a product that none of the cashier's two active
\* lots holds.
C20_Witness ==
    /\ IsReturn /\ lastResult = "ok"
    /\ \E p \in Products : ReturnRequestedQty(p) > 0 /\ NoLotWith(p)
    /\ Cardinality(ActiveCashierLots) = 2

\* the lots the receiver of the last transfer owned when it arrived, and the active ones
ReceiverLots == FindLots(preLots, lastReq.receiver, AllStatuses)
ActiveReceiverLots == FindLots(preLots, lastReq.receiver, ActiveStatuses)
\* lot d has taken the items of the last transfer: every requested quantity is added, a
\* product it already held keeps its line items and a product new to it gets one
MergedInto(d) ==
    /\ lots[d].status = preLots[d].status
    /\ \A p \in Products :
          /\ QtyOf(lots[d].items, p) = QtyOf(preLots[d].items, p) + RequestedQty(p)
          /\ LinesOf(lots[d], p) # LinesOf(preLots[d], p)
             => /\ LinesOf(preLots[d], p) = {}
                /\ Cardinality(LinesOf(lots[d], p)) = 1
                /\ \E i \in 1..Len(lastReq.items) : lastReq.items[i].productId = p

\* C21 (receiver side of a transfer): a successful transfer to a receiver with an active
\* lot merges all items into one active lot of the receiver and creates no lot; to a
\* receiver without active lot it creates exactly one lot, delivered, holding the
\* transferred items, and leaves the receiver's cancelled lots as they were.
C21_ReceiverSide ==
    (IsTransfer /\ lastResult = "ok")
    => IF ActiveReceiverLots # {}
       THEN /\ Len(lots) = Len(preLots)
            /\ \E d \in ActiveReceiverLots :
                  /\ MergedInto(d)
                  /\ \A e \in ReceiverLots \ {d} : Content(lots[e]) = Content(preLots[e])
       ELSE /\ Len(lots) = Len(preLots) + 1
            /\ lots[Len(lots)].cashierId = lastReq.receiver
            /\ lots[Len(lots)].status = "delivered"
            /\ \A p \in Products : QtyOf(lots[Len(lots)].items, p) = RequestedQty(p)
            /\ \A e \in ReceiverLots : Content(lots[e]) = Content(preLots[e])

\* C21 witness: a successful transfer of positive quantities to a receiver with two
\* active lots.
C21_Witness ==
    /\ IsTransfer /\ lastResult = "ok"
    /\ \A i \in 1..Len(lastReq.items) : lastReq.items[i].quantity > 0
    /\ Cardinality(ActiveReceiverLots) = 2

\* the two requests handled at once are returns of one line each, for the same item of
\* one transaction
TwoReturns ==
    /\ \A p \in Procs : procs[p].kind = "return" /\ Len(procs[p].lines) = 1
    /\ procs[1].txn = procs[2].txn
    /\ procs[1].lines[1].itemIndex = procs[2].lines[1].itemIndex
    /\ procs[1].lines[1].itemIndex < Len(InitTxns[procs[1].txn].items)
\* the quantity of product p in all lots of a store, whatever their status
LotQty(store, p) == SeqSum([d \in 1..Len(store) |-> QtyOf(store[d].items, p)])

\* C22 (concurrent returns): after two returns of the same item handled at once, the
\* quantities recorded for an item do not exceed its original quantity, and the stock put
\* back into the lots does not exceed the quantity recorded as returned.
C22_ConcurrentReturns ==
    (TwoReturns /\ AllDone)
    => LET id == procs[1].txn
       IN /\ \A k \in 1..Len(txns[id].items) :
                ReturnedForItem(txns[id], k) <= txns[id].items[k].quantity
          /\ \A p \in Products :
                LotQty(lots, p) - LotQty(InitLots, p)
                   <= ReturnedIn(txns[id], p) - ReturnedIn(InitTxns[id], p)

\* total quantity sold and total quantity recorded as returned, over all lines of t
TotalOriginalQuantity(t) == SeqSum([k \in 1..Len(t.items) |-> t.items[k].quantity])
TotalReturnedQuantity(t) == SeqSum([k \in 1..Len(t.returnedItems) |-> t.returnedItems[k].quantity])
\* a transaction that is not fully returned
PartlyReturned(t) ==
    t.status = "completed" /\ TotalReturnedQuantity(t) < TotalOriginalQuantity(t)
\* a return of one unit of item i (0-based) of transaction id, alone in its request, is
\* accepted in the current state
OneUnitAccepted(id, i) ==
    ReturnOutcome(lots, txns[id], <<[itemIndex |-> i, quantity |-> 1]>>).result = "ok"

\* C23 (full refund reachable): while a completed transaction has fewer units returned
\* than sold, a return of one unit is accepted for at least one of its items.
C23_FullRefundReachable ==
    \A id \in DOMAIN txns :
        PartlyReturned(txns[id])
        => \E i \in 0..(Len(txns[id].items) - 1) : OneUnitAccepted(id, i)

\* the amount refunded so far for transaction t
RefundedTotal(t) == SeqSum([j \in 1..Len(t.returnedItems) |-> t.returnedItems[j].returnAmount])
\* every entry of t records a positive quantity and no item of t is returned beyond the
\* quantity sold
WithinSold(t) ==
    /\ \A j \in 1..Len(t.returnedItems) : t.returnedItems[j].quantity > 0
    /\ \A k \in 1..Len(t.items) : ReturnedForItem(t, k) <= t.items[k].quantity

\* C24 (refund cap): the amounts refunded for a transaction, none of whose items is
\* returned beyond the quantity sold, do not exceed the total amount recorded at the sale.
C24_RefundCap ==
    \A id \in TxnIds :
        WithinSold(txns[id]) => RefundedTotal(txns[id]) <= InitTxns[id].totalAmount

\* C25 (one line item per product): no lot holds two line items of one product.
C25_OneLinePerProduct ==
    \A d \in 1..Len(lots) : \A p \in Products :
        Cardinality(LinesOf(lots[d], p)) <= 1

\* the cashiers between whom the last transfer moved stock, the cashier of the
\* transaction the last return addressed
Parties ==
    IF IsTransfer THEN {lastReq.sender, lastReq.receiver}
    ELSE IF IsReturn THEN {preTxns[lastReq.txn].cashierId}
    ELSE {}
\* the products the last request names: those of its lines (transfer), those of the
\* items its lines address (return)
RequestProducts ==
    IF IsTransfer THEN {lastReq.items[i].productId : i \in 1..Len(lastReq.items)}
    ELSE IF IsReturn
    THEN {preTxns[lastReq.txn].items[lastReq.lines[i].itemIndex + 1].productId :
             i \in {j \in 1..Len(lastReq.lines) :
                       IndexInRange(preTxns[lastReq.txn], lastReq.lines[j])}}
    ELSE {}
\* the lots the last request added to the store
NewLots == (Len(preLots) + 1)..Len(lots)

\* C26 (lot frame): a request leaves the lots of cashiers who are no party to it, the
\* transactions it does not address and the quantities of the products it does not name
\* as they were; a lot it creates belongs to a party, and only a transfer creates one; no
\* lot is deleted.
C26_LotFrame ==
    /\ Len(lots) >= Len(preLots)
    /\ \A d \in 1..Len(preLots) :
          /\ lots[d].cashierId = preLots[d].cashierId
          /\ lots[d].createdAt = preLots[d].createdAt
          /\ lots[d].cashierId \notin Parties => lots[d] = preLots[d]
          /\ \A p \in Products \ RequestProducts :
                QtyOf(lots[d].items, p) = QtyOf(preLots[d].items, p)
    /\ \A d \in NewLots :
          /\ IsTransfer
          /\ lots[d].cashierId \in Parties
          /\ \A p \in Products \ RequestProducts : QtyOf(lots[d].items, p) = 0
    /\ IsReturn => \A id \in DOMAIN txns : id # lastReq.txn => txns[id] = preTxns[id]
    /\ IsTransfer => txns = preTxns

\* C26 witness: an accepted request changed a lot while a cashier who is no party to it
\* holds a lot, and a lot of a party holds a product the request does not name.
C26_Witness ==
    /\ lastResult = "ok"
    /\ lots # preLots
    /\ \E d \in 1..Len(preLots) : preLots[d].cashierId \notin Parties /\ preLots[d].items # <<>>
    /\ \E d \in 1..Len(preLots), p \in Products \ RequestProducts :
          preLots[d].cashierId \in Parties /\ QtyOf(preLots[d].items, p) > 0
====
